---------------------------- MODULE Spec2Model ----------------------------
(***************************************************************************)
(* A model of pooh-rs: the byte-span helpers of src/ext.rs (big-endian     *)
(* decoders, Internet checksum) and the socket layer of src/net.rs (bind,  *)
(* strip_ipv4_header, the per-family dial helpers, any_success and the     *)
(* DualAddr dialers).                                                      *)
(*                                                                         *)
(* TLC's integers are 32-bit signed, so machine words are kept as limbs:   *)
(* a decoder's accumulator is a sequence of base-256 digits (most          *)
(* significant first) of the accumulator's width, and the checksum's u32   *)
(* accumulator is a pair of 16-bit halves.  An addition that carries out   *)
(* of the top limb is recorded as an overflow.                             *)
(***************************************************************************)
EXTENDS Integers, Sequences, FiniteSets, TLC

VARIABLES
    buf,      \* bytes: the leading bytes of the slice a helper is applied to
    fill,     \* bytes: the number of 0xff bytes that follow them in the slice
    op,       \* bytes: the helper that was applied ("none" before)
    out,      \* bytes: what it returned
    b_type,   \* bind: the BindType argument
    b_addr,   \* bind: the shape of the addr argument's text
    b_pc,     \* bind: position inside bind()
    b_sock,   \* bind: the socket bind() created (None before Socket::new)
    b_out,    \* bind: the value bind() returned (None while running)
    d_proto,  \* dial: which of dial_tcp / dial_udp / dial_icmp runs
    d_addr,   \* dial: the DualAddr variant
    d_pc,     \* dial: position inside the dial future
    d_fam,    \* dial: the family whose attempt is in progress
    d_sock,   \* dial: the local socket of the attempt in progress
    d_res1,   \* dial: result of the IPv4 attempt (None until it completed)
    d_res2,   \* dial: result of the IPv6 attempt (None until it completed)
    d_out,    \* dial: the value the dialer returned (None while running)
    d_log     \* dial: the attempts' begin/end events and the report, in order

bytes_vars == <<buf, fill, op, out>>
bind_vars  == <<b_type, b_addr, b_pc, b_sock, b_out>>
dial_vars  == <<d_proto, d_addr, d_pc, d_fam, d_sock, d_res1, d_res2, d_out, d_log>>
vars       == <<buf, fill, op, out, b_type, b_addr, b_pc, b_sock, b_out,
                d_proto, d_addr, d_pc, d_fam, d_sock, d_res1, d_res2, d_out, d_log>>

None == "None"

----------------------------------------------------------------------------
(* Bounds of the model.                                                    *)

\* longest buffer over BitVals (the tests of ext.rs go up to 9 bytes)
MaxLen == 9
\* longest buffer over RichVals
MaxShort == 3
\* longest buffer handed to strip_ipv4_header (the longest header is 60 bytes)
MaxPacket == 61
\* length of the long all-0xff buffer
BigLen == 131076

BitVals == {0, 255}
RichVals == {0, 1, 18, 52, 128, 255}

----------------------------------------------------------------------------
(* TLC passes an operator's arguments unevaluated and evaluates them at    *)
(* each use.  A helper that uses an accumulator more than once is          *)
(* therefore written as a function: a function's argument is evaluated     *)
(* once, before the function is applied.                                   *)

Byte == 0..255

Min[a \in Int, b \in Int] == IF a < b THEN a ELSE b

----------------------------------------------------------------------------
(* src/ext.rs: the big-endian decoders.  An accumulator is its bytes, most *)
(* significant first, and whether an addition overflowed it.               *)

Acc == [w : Seq(Byte), ovf : BOOLEAN]

\* a zero accumulator of n bytes
zero_word(n) == [i \in 1..n |-> 0]

\* mutant of take: the fold runs over the whole slice
take_all(b, n) == b

\* Iterator::take
take(b, n) == SubSeq(b, 1, Min[Len(b), n])

\* mutant of shl8: the accumulator is not shifted
shl8_none(w) == w

\* a << 8 on an accumulator of Len(w) bytes: the top byte is shifted out
shl8(w) == IF Len(w) = 0 THEN w ELSE Tail(w) \o <<0>>

\* w + c at byte i, carrying upwards; a carry out of byte 1 is an overflow
add_carry[w \in Seq(Byte), i \in Nat, c \in Nat] ==
    IF c = 0 THEN [w |-> w, ovf |-> FALSE]
    ELSE IF i = 0 THEN [w |-> w, ovf |-> TRUE]
    ELSE add_carry[[w EXCEPT ![i] = (w[i] + c) % 256], i - 1, (w[i] + c) \div 256]

\* (a << 8) + (*b as uN)
shift_add(w, x) == add_carry[shl8(w), Len(w), x]

\* the fold's closure |a, b| (a << 8) + (*b as uN)
fold_step[acc \in Acc, x \in Byte] ==
    [w |-> shift_add(acc.w, x).w, ovf |-> acc.ovf \/ shift_add(acc.w, x).ovf]

\* Iterator::fold over the bytes taken
RECURSIVE fold(_, _)
fold(bytes, acc) ==
    IF bytes = <<>> THEN acc ELSE fold(Tail(bytes), fold_step[acc, Head(bytes)])

\* number of bytes of each decoder's result type
U16Bytes == 2
U32Bytes == 4
U64Bytes == 8
\* usize::BITS / 8 on a 32-bit and on a 64-bit target
UsizeBytes == {4, 8}

decode(b, n) == fold(take(b, n), [w |-> zero_word(n), ovf |-> FALSE])

u16(b) == decode(b, U16Bytes)
u32(b) == decode(b, U32Bytes)
u64(b) == decode(b, U64Bytes)
usize(b, ptr) == decode(b, ptr)

----------------------------------------------------------------------------
(* src/ext.rs: checksum.  csum is a u32 kept as two 16-bit halves, with    *)
(* whether a += overflowed it (ovf) and whether an index was out of range  *)
(* (oob).                                                                  *)

Half == 65536

Csum == [hi : 0..(Half - 1), lo : 0..(Half - 1), ovf : BOOLEAN, oob : BOOLEAN]

\* csum += w for 0 <= w < 2^16; wraps mod 2^32 and records the overflow
add_u32[c \in Csum, w \in 0..(Half - 1)] ==
    IF c.lo + w < Half THEN [c EXCEPT !.lo = c.lo + w]
    ELSE IF c.hi + 1 < Half THEN [c EXCEPT !.lo = c.lo + w - Half, !.hi = c.hi + 1]
    ELSE [c EXCEPT !.lo = c.lo + w - Half, !.hi = 0, !.ovf = TRUE]

\* an index past the end of the slice
index_panic[c \in Csum] == [c EXCEPT !.oob = TRUE]

\* mutant of checksum_length: the loop bound is the whole length
checksum_length_full(b) == Len(b)

\* let length = self.len() - 1
checksum_length(b) == Len(b) - 1

\* ((self[i] as u32) << 8) + (self[i + 1] as u32)
loop_word(b, i) == b[i + 1] * 256 + b[i + 2]

\* one iteration of the for loop; self[i + 1] past the end panics
loop_step(b, i, c) ==
    IF i + 1 >= Len(b) THEN index_panic[c] ELSE add_u32[c, loop_word(b, i)]

\* for i in (0..length).step_by(2) { csum += ... }: run[i, stop, c, width]
\* is csum after the iterations i, i+2, ... < stop, in order, starting from
\* c.  They are evaluated in nested runs of 8 (width 2: one iteration; width
\* 16, 128, ..., 524288: 8 runs of the next smaller width) so that a long
\* buffer does not nest one call per iteration.
for_loop(b, length, c0) ==
    LET run[i \in Nat, stop \in Nat, c \in Csum, width \in Nat] ==
            IF i >= stop THEN c
            ELSE run[i + width, stop,
                     IF width = 2 THEN loop_step(b, i, c)
                     ELSE run[i, Min[i + width, stop], c, width \div 8],
                     width]
    IN run[0, IF length < 0 THEN 0 ELSE length, c0, 524288]

\* if length % 2 == 0 { csum += (self[length] as u32) << 8 }
odd_tail(b, length, c) ==
    IF length % 2 = 0
    THEN IF length >= Len(b) THEN index_panic[c] ELSE add_u32[c, b[length + 1] * 256]
    ELSE c

\* while csum > 0xffff { csum = (csum >> 16) + (csum & 0xffff) }
fold_carry[c \in Csum] ==
    IF c.hi > 0
    THEN fold_carry[[c EXCEPT !.hi = (c.hi + c.lo) \div Half,
                              !.lo = (c.hi + c.lo) % Half]]
    ELSE c

\* mutant of not_u16: the sum is returned without complementing it
not_u16_missing(lo) == lo

\* !csum as u16
not_u16(lo) == (Half - 1) - lo

\* the accumulator after the for loop and the odd tail
checksum_acc(b) ==
    odd_tail(b, checksum_length(b),
             for_loop(b, checksum_length(b),
                      [hi |-> 0, lo |-> 0, ovf |-> FALSE, oob |-> FALSE]))

\* the rest of checksum in a build with (checks) or without overflow checks:
\* an overflowing += panics with checks and wraps without
checksum_finish[c \in Csum, checks \in BOOLEAN] ==
    IF c.oob \/ (checks /\ c.ovf) THEN [panic |-> TRUE, val |-> 0]
    ELSE [panic |-> FALSE, val |-> not_u16(fold_carry[c].lo)]

\* checksum(&self).  self.len() - 1 on an empty slice panics with checks
\* and wraps without, and then self[0] is out of range: both builds panic.
checksum(b, checks) ==
    IF Len(b) = 0 THEN [panic |-> TRUE, val |-> 0]
    ELSE checksum_finish[checksum_acc(b), checks]

\* what checksum(&self) returns in the two builds
checksum_outcomes(b) ==
    IF Len(b) = 0 THEN {checksum(b, TRUE)}
    ELSE {checksum_finish[c, checks] : c \in {checksum_acc(b)}, checks \in BOOLEAN}

----------------------------------------------------------------------------
(* src/net.rs: strip_ipv4_header.  The result is the offset the returned   *)
(* slice starts at and the slice itself.                                   *)

\* b[0]; indexing an empty slice panics
first_byte(b) == IF Len(b) = 0 THEN -1 ELSE b[1]

\* b[0] >> 4
version_nibble(b) == first_byte(b) \div 16

\* mutant of header_len: the header length is taken in words, not bytes
header_len_words(b) == first_byte(b) % 16

\* ((b[0] & 0x0f) as usize) << 2
header_len(b) == (first_byte(b) % 16) * 4

\* &b[l..]; a start past the end panics
slice_from(b, l) ==
    IF l > Len(b) THEN [panic |-> TRUE, from |-> 0, bytes |-> <<>>]
    ELSE [panic |-> FALSE, from |-> l, bytes |-> SubSeq(b, l + 1, Len(b))]

strip_ipv4_header(b) ==
    IF Len(b) < 20 THEN slice_from(b, 0)
    ELSE IF first_byte(b) < 0 THEN [panic |-> TRUE, from |-> 0, bytes |-> <<>>]
    ELSE IF version_nibble(b) # 4 THEN slice_from(b, 0)
    ELSE IF 20 > header_len(b) \/ header_len(b) > Len(b) THEN slice_from(b, 0)
    ELSE slice_from(b, header_len(b))

----------------------------------------------------------------------------
(* src/net.rs: bind.                                                       *)

BindTypes == {"IPv4Tcp", "IPv4Udp", "IPv4Icmp", "IPv6Tcp", "IPv6Udp", "IPv6Icmp"}

\* the errors an OS call fails with
OsErrors == {"EACCES", "EADDRINUSE"}

\* the first match: Socket::new(domain, type, protocol)
socket_domain(t) == IF t \in {"IPv4Tcp", "IPv4Udp", "IPv4Icmp"} THEN "v4" ELSE "v6"
socket_type(t) ==
    IF t \in {"IPv4Tcp", "IPv6Tcp"} THEN "stream"
    ELSE IF t \in {"IPv4Udp", "IPv6Udp"} THEN "dgram" ELSE "raw"
socket_protocol(t) ==
    IF t = "IPv4Icmp" THEN "icmpv4" ELSE IF t = "IPv6Icmp" THEN "icmpv6" ELSE "none"

\* the second match: the arm BindType::IPv6Tcp | BindType::IPv6Udp sets
\* IPV6_V6ONLY and parses a SocketAddrV6, the arm _ parses a SocketAddrV4
v6_arm(t) == t \in {"IPv6Tcp", "IPv6Udp"}
parsed_family(t) == IF v6_arm(t) THEN "v6" ELSE "v4"

\* the third match: the arm BindType::IPv4Tcp | BindType::IPv6Tcp listens
listen_arm(t) == t \in {"IPv4Tcp", "IPv6Tcp"}

\* the texts bind is called with, and what str::parse makes of them:
\* SocketAddrV4 and SocketAddrV6 each accept only their own textual form
AddrTexts ==
    {"127.19.89.64:0", "0.0.0.0:8964", "[::]:8964", "[::1]:0", "localhost:80", ""}
text_family(a) ==
    IF a \in {"127.19.89.64:0", "0.0.0.0:8964"} THEN "v4"
    ELSE IF a \in {"[::]:8964", "[::1]:0"} THEN "v6" ELSE "none"
parse_ok(a, fam) == text_family(a) = fam

NoSocket ==
    [created |-> FALSE, open |-> FALSE, domain |-> "none", type |-> "none",
     protocol |-> "none", only_v6 |-> FALSE, bound |-> "none", listening |-> FALSE]
new_socket(domain, type, protocol) ==
    [created |-> TRUE, open |-> TRUE, domain |-> domain, type |-> type,
     protocol |-> protocol, only_v6 |-> FALSE, bound |-> "none", listening |-> FALSE]

\* a socket going out of scope is closed
dropped(sock) == [sock EXCEPT !.open = FALSE]

Running == [kind |-> "Running", at |-> "none", errno |-> "none"]
OkSocket == [kind |-> "Ok", at |-> "none", errno |-> "none"]
IoError(at, errno) == [kind |-> "Err", at |-> at, errno |-> errno]
Panicked(at) == [kind |-> "Panic", at |-> at, errno |-> "none"]


----------------------------------------------------------------------------
(* src/net.rs: the dial helpers' results, any_success.                     *)

\* a connected socket: its own family (local) and its peer's (remote)
NoConn == [local |-> "none", remote |-> "none"]
Conn(local, remote) == [local |-> local, remote |-> remote]

\* io::Result<T> of one family's attempt (NotRun: the attempt has not completed)
NotRun == [kind |-> "NotRun", sock |-> NoConn, fam |-> "none", at |-> "none", errno |-> "none"]
Ok(sock) == [kind |-> "Ok", sock |-> sock, fam |-> "none", at |-> "none", errno |-> "none"]
Err(fam, at, errno) ==
    [kind |-> "Err", sock |-> NoConn, fam |-> fam, at |-> at, errno |-> errno]

\* the error an Err result carries (as an Err, to compare errors)
error_of(res) == Err(res.fam, res.at, res.errno)

\* Option<T>
NoneOpt == [some |-> FALSE, sock |-> NoConn]
Some(sock) == [some |-> TRUE, sock |-> sock]

\* io::Result<(Option<T>, Option<T>)>
Pending == [kind |-> "Pending", slot1 |-> NoneOpt, slot2 |-> NoneOpt, err |-> NotRun]
OkPair(o1, o2) == [kind |-> "Ok", slot1 |-> o1, slot2 |-> o2, err |-> NotRun]
ErrPair(e) == [kind |-> "Err", slot1 |-> NoneOpt, slot2 |-> NoneOpt, err |-> e]

\* mutant of any_success: a double failure propagates the second error
any_success_second_error(res1, res2) ==
    IF res1.kind = "Ok"
    THEN OkPair(Some(res1.sock), IF res2.kind = "Ok" THEN Some(res2.sock) ELSE NoneOpt)
    ELSE IF res2.kind = "Ok" THEN OkPair(NoneOpt, Some(res2.sock))
         ELSE ErrPair(error_of(res2))

any_success(res1, res2) ==
    IF res1.kind = "Ok"
    THEN OkPair(Some(res1.sock), IF res2.kind = "Ok" THEN Some(res2.sock) ELSE NoneOpt)
    ELSE IF res2.kind = "Ok" THEN OkPair(NoneOpt, Some(res2.sock))
         ELSE ErrPair(error_of(res1))

\* DualAddr::V4(addr) => Ok((Some(addr.dial()?), None))
only_v4(res) ==
    IF res.kind = "Ok" THEN OkPair(Some(res.sock), NoneOpt) ELSE ErrPair(error_of(res))

\* DualAddr::V6(addr) => Ok((None, Some(addr.dial()?)))
only_v6(res) ==
    IF res.kind = "Ok" THEN OkPair(NoneOpt, Some(res.sock)) ELSE ErrPair(error_of(res))

----------------------------------------------------------------------------
(* The buffers the helpers are applied to.                                 *)

Seqs(S, n) == UNION {[1..k -> S] : k \in 0..n}

\* the buffers of ext.rs's tests
Vec8b78 ==
    <<0, 0, 0, 0, 169, 29, 199, 54, 92, 200, 97, 36, 10, 9, 0, 2, 255, 255,
      255, 0, 10, 9, 0, 1, 8, 8, 8, 8, 1, 1, 1, 1, 5, 20, 8, 186, 213, 231,
      137, 170, 254, 130, 26, 202, 10, 237, 197, 83, 141, 47, 61>>
VecFfff == <<0, 0, 0, 0>>
VecB72f == <<0, 0, 0, 0, 18, 52, 18, 52, 18, 52, 18, 52>>
TestBufs ==
    {Vec8b78, VecFfff, VecB72f, <<0, 1>>, <<0, 0, 1>>, <<255, 255>>,
     <<18, 52>>, <<0, 0, 0, 1>>, <<0, 0, 0, 0, 1>>,
     <<0, 0, 0, 0, 0, 0, 0, 0, 1>>, <<1, 2, 3, 4, 5, 6, 7, 8, 9>>}

\* a raw-socket read: first byte `first`, then bytes that tell their position
Packet(first, n) == [i \in 1..n |-> IF i = 1 THEN first ELSE (i - 1) % 256]
FirstBytes == {v * 16 + l : v \in {0, 4, 5, 15}, l \in 0..15}
Packets == {Packet(f, n) : f \in FirstBytes, n \in 1..MaxPacket}

\* n bytes of 0xff
RECURSIVE Fill(_)
Fill(n) ==
    IF n = 0 THEN <<>>
    ELSE IF n % 2 = 1 THEN <<255>> \o Fill(n - 1)
    ELSE LET h == Fill(n \div 2) IN h \o h

\* the largest length at which the u32 accumulator cannot overflow:
\* 65537 words of 0xffff sum to 0xffffffff
SafeLen == 2 * (Half + 1)

\* b with its last two bytes zeroed / replaced by the 16-bit value v
with_last2(b, v) ==
    [b EXCEPT ![Len(b) - 1] = v \div 256, ![Len(b)] = v % 256]

\* the checksum a sender computes over a buffer whose field is zeroed
field_value[z \in Seq(Byte)] == checksum(z, FALSE).val

\* a sender's construction: zero the trailing checksum field, compute, store
seal(b) == with_last2(b, field_value[with_last2(b, 0)])

PlainBufs == Seqs(BitVals, MaxLen) \cup Seqs(RichVals, MaxShort) \cup TestBufs
SealedBufs == {seal(b) : b \in {x \in PlainBufs : Len(x) >= 2}}
ShortBufs == PlainBufs \cup SealedBufs \cup Packets

\* the slice the helpers are applied to
Slice == buf \o Fill(fill)

----------------------------------------------------------------------------
(* Idle values of the three parts.                                         *)

BytesIdle == buf = <<>> /\ fill = 0 /\ op = "idle" /\ out = None
BindIdle ==
    /\ b_type = None /\ b_addr = None /\ b_pc = "idle"
    /\ b_sock = NoSocket /\ b_out = Running
DialIdle ==
    /\ d_proto = None /\ d_addr = None /\ d_pc = "idle" /\ d_fam = "none"
    /\ d_sock = NoSocket /\ d_res1 = NotRun /\ d_res2 = NotRun /\ d_out = Pending
    /\ d_log = <<>>

----------------------------------------------------------------------------
(* src/net.rs: bind, one action per call it makes.                         *)

InitBind ==
    /\ b_type \in BindTypes
    /\ b_addr \in AddrTexts
    /\ b_pc = "socket"
    /\ b_sock = NoSocket
    /\ b_out = Running
    /\ BytesIdle
    /\ DialIdle

\* bind returns: an Err through `?` (or a panic's unwinding) drops sock
BindReturn(result, sock) ==
    /\ b_pc' = "done"
    /\ b_out' = result
    /\ b_sock' = sock
    /\ UNCHANGED <<b_type, b_addr, bytes_vars, dial_vars>>

BindGoto(pc, sock) ==
    /\ b_pc' = pc
    /\ b_sock' = sock
    /\ UNCHANGED <<b_type, b_addr, b_out, bytes_vars, dial_vars>>

\* Socket::new(..)?
BindSocketNew ==
    /\ b_pc = "socket"
    /\ \/ BindGoto(IF v6_arm(b_type) THEN "set_only_v6" ELSE "parse",
                   new_socket(socket_domain(b_type), socket_type(b_type),
                              socket_protocol(b_type)))
       \/ \E e \in OsErrors : BindReturn(IoError("socket", e), NoSocket)

\* sock.set_only_v6(true)?
BindSetOnlyV6 ==
    /\ b_pc = "set_only_v6"
    /\ \/ BindGoto("parse", [b_sock EXCEPT !.only_v6 = TRUE])
       \/ \E e \in OsErrors : BindReturn(IoError("set_only_v6", e), dropped(b_sock))

\* addr.parse::<SocketAddrV6 / SocketAddrV4>().unwrap()
BindParse ==
    /\ b_pc = "parse"
    /\ IF parse_ok(b_addr, parsed_family(b_type))
       THEN BindGoto("bind", b_sock)
       ELSE BindReturn(Panicked("parse"), dropped(b_sock))

\* sock.bind(&sockaddr)?: the OS rejects an address of another family than
\* the socket's; otherwise it binds or fails
BindOsBind ==
    /\ b_pc = "bind"
    /\ \/ /\ b_sock.domain = parsed_family(b_type)
          /\ IF listen_arm(b_type)
             THEN BindGoto("listen", [b_sock EXCEPT !.bound = b_addr])
             ELSE BindReturn(OkSocket, [b_sock EXCEPT !.bound = b_addr])
       \/ /\ b_sock.domain = parsed_family(b_type)
          /\ \E e \in OsErrors : BindReturn(IoError("bind", e), dropped(b_sock))
       \/ /\ b_sock.domain # parsed_family(b_type)
          /\ BindReturn(IoError("bind", "EINVAL"), dropped(b_sock))

\* sock.listen(16)?; Ok(sock)
BindListen ==
    /\ b_pc = "listen"
    /\ \/ BindReturn(OkSocket, [b_sock EXCEPT !.listening = TRUE])
       \/ \E e \in OsErrors : BindReturn(IoError("listen", e), dropped(b_sock))

NextBind == BindSocketNew \/ BindSetOnlyV6 \/ BindParse \/ BindOsBind \/ BindListen

SpecBind == InitBind /\ [][NextBind]_vars

----------------------------------------------------------------------------
(* src/net.rs: DualAddr::dial_tcp / dial_udp / dial_icmp.  One action per  *)
(* call the future makes; the action that completes a family's attempt     *)
(* also runs the code that follows it up to the next call or the return.   *)

Protos == {"tcp", "udp", "icmp"}
DualAddrs == {"V4", "V6", "Both"}

\* the errors a socket call fails with
DialErrors == {"ECONNREFUSED", "ENETUNREACH"}

InitDial ==
    /\ d_proto \in Protos
    /\ d_addr \in DualAddrs
    /\ d_pc = "start"
    /\ d_fam = "none"
    /\ d_sock = NoSocket
    /\ d_res1 = NotRun
    /\ d_res2 = NotRun
    /\ d_out = Pending
    /\ d_log = <<>>
    /\ BytesIdle
    /\ BindIdle

\* the first call of SocketAddrExt::dial_tcp / dial_udp / dial_icmpv4|v6
first_call(proto) ==
    IF proto = "tcp" THEN "tcp_connect"
    ELSE IF proto = "udp" THEN "udp_bind" ELSE "icmp_socket"

\* mutant of after_attempt: an IPv4 failure ends the Both dial at once
after_attempt_short_circuit(addr, fam, res) ==
    IF addr = "Both" /\ fam = "v4" /\ res.kind = "Ok" THEN "next_family" ELSE "return"

\* what follows a family's attempt: in the Both arm the arguments of
\* any_success are evaluated left to right, each awaited to its end
after_attempt(addr, fam, res) ==
    IF addr = "Both" /\ fam = "v4" THEN "next_family" ELSE "return"

\* the value the match arm returns once its last attempt gave res
arm_result(addr, res1, res) ==
    IF addr = "V4" THEN only_v4(res)
    ELSE IF addr = "V6" THEN only_v6(res)
    ELSE any_success(res1, res)

\* match self { .. }: the first family's dial future is created and polled
DialStart ==
    /\ d_pc = "start"
    /\ d_fam' = (IF d_addr = "V6" THEN "v6" ELSE "v4")
    /\ d_pc' = first_call(d_proto)
    /\ d_log' = d_log \o <<<<"begin", d_fam'>>>>
    /\ UNCHANGED <<d_proto, d_addr, d_sock, d_res1, d_res2, d_out, bytes_vars, bind_vars>>

\* the attempt of family d_fam completed with res
Complete(res) ==
    /\ d_res1' = (IF d_fam = "v4" THEN res ELSE d_res1)
    /\ d_res2' = (IF d_fam = "v6" THEN res ELSE d_res2)
    /\ d_sock' = NoSocket
    /\ IF after_attempt(d_addr, d_fam, res) = "next_family"
       THEN /\ d_fam' = "v6"
            /\ d_pc' = first_call(d_proto)
            /\ d_out' = d_out
            /\ d_log' = d_log \o <<<<"end", d_fam>>, <<"begin", "v6">>>>
       ELSE /\ d_fam' = d_fam
            /\ d_pc' = "done"
            /\ d_out' = arm_result(d_addr, d_res1, res)
            /\ d_log' = d_log \o <<<<"end", d_fam>>, <<"return">>>>
    /\ UNCHANGED <<d_proto, d_addr, bytes_vars, bind_vars>>

\* the attempt goes on to its next call with the local socket sock
Continue(pc, sock) ==
    /\ d_pc' = pc
    /\ d_sock' = sock
    /\ UNCHANGED <<d_proto, d_addr, d_fam, d_res1, d_res2, d_out, d_log,
                   bytes_vars, bind_vars>>

\* connect on a socket of domain `local` to an address of family `remote`:
\* the OS refuses an address of another family
connect(local, remote) ==
    IF local = remote
    THEN {Ok(Conn(local, remote))} \cup {Err(remote, "connect", e) : e \in DialErrors}
    ELSE {Err(remote, "connect", "EAFNOSUPPORT")}

\* dial_tcp: TcpStream::connect(self).await (the socket is of the address's family)
TcpConnect ==
    /\ d_pc = "tcp_connect"
    /\ \E res \in connect(d_fam, d_fam) : Complete(res)

\* the family of the local address dial_udp binds
udp_local_family(remote) == "v4"

\* dial_udp: UdpSocket::bind("0.0.0.0:0").await?
UdpBind ==
    /\ d_pc = "udp_bind"
    /\ \/ Continue("udp_connect", new_socket(udp_local_family(d_fam), "dgram", "none"))
       \/ \E e \in DialErrors : Complete(Err(d_fam, "bind", e))

\* dial_udp: sock.connect(self).await?; Ok(sock)
UdpConnect ==
    /\ d_pc = "udp_connect"
    /\ \E res \in connect(d_sock.domain, d_fam) : Complete(res)

\* dial_icmpv4 / dial_icmpv6: Socket::new(Domain, Type::raw(), icmp)?
IcmpSocket ==
    /\ d_pc = "icmp_socket"
    /\ \/ Continue("icmp_connect",
                   new_socket(d_fam, "raw", IF d_fam = "v4" THEN "icmpv4" ELSE "icmpv6"))
       \/ \E e \in DialErrors : Complete(Err(d_fam, "socket", e))

\* dial_icmpv4 / dial_icmpv6: sock.connect(self).await?; Ok(sock)
IcmpConnect ==
    /\ d_pc = "icmp_connect"
    /\ \E res \in connect(d_sock.domain, d_fam) : Complete(res)

NextDial == DialStart \/ TcpConnect \/ UdpBind \/ UdpConnect \/ IcmpSocket \/ IcmpConnect

SpecDial == InitDial /\ [][NextDial]_vars

----------------------------------------------------------------------------
(* The byte helpers applied to a buffer.                                   *)

InitBytes ==
    /\ \/ buf \in ShortBufs /\ fill = 0
       \/ buf = <<>> /\ fill \in {SafeLen, BigLen}
    /\ op = "none"
    /\ out = None
    /\ BindIdle
    /\ DialIdle

Apply(name, value) ==
    /\ op = "none"
    /\ op' = name
    /\ out' = value
    /\ UNCHANGED <<buf, fill, bind_vars, dial_vars>>

U16 == \E b \in {Slice} : Apply("u16", u16(b))
U32 == \E b \in {Slice} : Apply("u32", u32(b))
U64 == \E b \in {Slice} : Apply("u64", u64(b))
Usize == \E b \in {Slice} : \E ptr \in UsizeBytes : Apply("usize", usize(b, ptr))
Checksum == \E b \in {Slice} : \E r \in checksum_outcomes(b) : Apply("checksum", r)
StripIpv4Header ==
    \E b \in {Slice} : Apply("strip_ipv4_header", strip_ipv4_header(b))

NextBytes == U16 \/ U32 \/ U64 \/ Usize \/ Checksum \/ StripIpv4Header

SpecBytes == InitBytes /\ [][NextBytes]_vars

\* the three parts together: each behaviour runs one of them
Init == InitBytes \/ InitBind \/ InitDial
Next == NextBytes \/ NextBind \/ NextDial
Spec == Init /\ [][Next]_vars

----------------------------------------------------------------------------
(* Reference definitions the properties of the byte helpers are stated     *)
(* with.                                                                   *)

Decoders == {"u16", "u32", "u64", "usize"}

\* n zero bytes
Zeros(n) == [i \in 1..n |-> 0]

\* the number a byte string is in base 256, most significant byte first
\* (for strings whose value is below 2^31)
BigEndian[bytes \in Seq(Byte)] ==
    IF bytes = <<>> THEN 0
    ELSE 256 * BigEndian[SubSeq(bytes, 1, Len(bytes) - 1)] + bytes[Len(bytes)]

\* RFC 1071: the 16-bit words of b, big-endian, an odd last byte padded
\* with a zero byte
Rfc1071Word(b, k) ==
    b[2 * k + 1] * 256 + (IF 2 * k + 2 <= Len(b) THEN b[2 * k + 2] ELSE 0)

\* one's complement addition: the carry out of bit 15 is added back in
EndAroundAdd[x \in 0..(Half - 1), y \in 0..(Half - 1)] ==
    IF x + y >= Half THEN x + y - Half + 1 ELSE x + y

\* the end-around-carry sum of the words lo .. hi-1 of b
Rfc1071Sum(b) ==
    LET sum[lo \in Nat, hi \in Nat] ==
            IF hi <= lo THEN 0
            ELSE IF hi = lo + 1 THEN Rfc1071Word(b, lo)
            ELSE EndAroundAdd[sum[lo, (lo + hi) \div 2], sum[(lo + hi) \div 2, hi]]
    IN sum[0, (Len(b) + 1) \div 2]

Rfc1071(b) == (Half - 1) - Rfc1071Sum(b)

\* the header test of strip_ipv4_header's contract
LooksLikeIpv4(b) ==
    /\ Len(b) >= 20
    /\ b[1] \div 16 = 4
    /\ 20 <= 4 * (b[1] % 16)
    /\ 4 * (b[1] % 16) <= Len(b)

----------------------------------------------------------------------------
(* Properties of the byte helpers (SpecBytes).  b is the slice the helper  *)
(* was applied to.                                                         *)

ChecksumIsRfc1071(b) ==
    ~out.panic /\ out.val = Rfc1071(b)

\* C4 as stated: for every non-empty buffer, checksum returns the RFC 1071
\* checksum of the buffer.
C4_ChecksumIsRfc1071 ==
    op = "checksum" =>
        \A b \in {Slice} : Len(b) >= 1 => ChecksumIsRfc1071(b)

\* C4: for every non-empty buffer of at most SafeLen = 131074 bytes,
\* checksum returns (and does not panic) the RFC 1071 checksum of the
\* buffer, for even and for odd lengths; the test vectors give 0x8b78,
\* 0xffff and 0xb72f.
C4_ChecksumIsRfc1071UpToSafeLen ==
    op = "checksum" =>
        \A b \in {Slice} :
            (Len(b) >= 1 /\ Len(b) <= SafeLen) =>
                /\ ChecksumIsRfc1071(b)
                /\ b = Vec8b78 => out.val = 35704
                /\ b = VecFfff => out.val = 65535
                /\ b = VecB72f => out.val = 46895

\* an odd-length buffer whose sum carries was checksummed
C4_Witness ==
    op = "checksum" /\ buf = Vec8b78 /\ fill = 0 /\ ~out.panic /\ out.val = 35704

\* C5 as stated: a buffer shorter than the decoder's width decodes to the
\* value of the buffer zero-padded on the right to the width.
C5_ShortBufferRightPadded ==
    op \in Decoders =>
        \A b \in {Slice} :
            Len(b) < Len(out.w) => out.w = b \o Zeros(Len(out.w) - Len(b))

\* C5: a buffer shorter than the decoder's width decodes, without overflow,
\* to the big-endian value of the buffer's own bytes, that is the buffer
\* zero-padded on the left to the width ([x, y] as 32 bits gives x*2^8 + y).
C5_ShortBufferLeftPadded ==
    op \in Decoders =>
        \A b \in {Slice} :
            Len(b) < Len(out.w) =>
                /\ ~out.ovf
                /\ out.w = Zeros(Len(out.w) - Len(b)) \o b
                /\ Len(b) <= 3 => BigEndian[out.w] = BigEndian[b]
                /\ Len(b) = 2 => BigEndian[out.w] = b[1] * 256 + b[2]

\* a 2-byte buffer was decoded as 32 bits
C5_Witness ==
    op = "u32" /\ buf = <<18, 52>> /\ fill = 0 /\ out.w = <<0, 0, 18, 52>>

\* C6 as stated: the checksum of a buffer whose last two bytes hold the
\* checksum computed with those bytes zeroed is 0xFFFF.
C6_SealedChecksumIsFfff ==
    op = "checksum" =>
        \A b \in {Slice} :
            (Len(b) >= 2 /\ b = seal(b)) => (~out.panic /\ out.val = 65535)

\* C6: the checksum of an even-length buffer of at most SafeLen bytes whose
\* last two bytes hold the checksum computed with those bytes zeroed is 0.
C6_SealedChecksumIsZero ==
    op = "checksum" =>
        \A b \in {Slice} :
            (/\ Len(b) >= 2 /\ Len(b) <= SafeLen /\ Len(b) % 2 = 0
             /\ b = seal(b)) =>
                (~out.panic /\ out.val = 0)

\* a buffer sealed with a non-trivial checksum was checksummed
C6_Witness ==
    /\ op = "checksum"
    /\ fill = 0
    /\ buf = seal(VecB72f)
    /\ buf[11] # 0
    /\ out.val = 0

\* C7: strip_ipv4_header returns b[h..], h = 4 * (b[0] & 0x0f), exactly when
\* b looks like an IPv4 header, and b itself otherwise; it never panics and
\* the result is a suffix of b.
C7_StripIpv4Header ==
    op = "strip_ipv4_header" =>
        \A b \in {Slice} :
            /\ ~out.panic
            /\ out.from = (IF LooksLikeIpv4(b) THEN 4 * (b[1] % 16) ELSE 0)
            /\ out.from <= Len(b)
            /\ out.bytes = SubSeq(b, out.from + 1, Len(b))

\* a header that fills the whole buffer was stripped to the empty slice
C7_Witness ==
    /\ op = "strip_ipv4_header"
    /\ Len(buf) = 24 /\ buf[1] = 70 /\ fill = 0
    /\ out.from = 24 /\ out.bytes = <<>>

\* C9: every decoder is total and returns, without overflow, the big-endian
\* number of the first k = min(len, N) bytes: bytes after the first N do
\* not matter and a shorter buffer decodes to its own value.
C9_DecodePrefix ==
    op \in Decoders =>
        \A b \in {Slice} : \A n \in {Len(out.w)} : \A k \in {Min[Len(b), n]} :
            /\ ~out.ovf
            /\ op = "u16" => n = U16Bytes
            /\ op = "u32" => n = U32Bytes
            /\ op = "u64" => n = U64Bytes
            /\ op = "usize" => n \in UsizeBytes
            /\ out.w = Zeros(n - k) \o SubSeq(b, 1, k)
            /\ k <= 3 => BigEndian[out.w] = BigEndian[SubSeq(b, 1, k)]
            /\ (\A i \in 1..k : b[i] = 0) => out.w = Zeros(n)

\* a byte after the first two was ignored by the 16-bit decoder
C9_Witness ==
    op = "u16" /\ buf = <<0, 0, 1>> /\ fill = 0 /\ out.w = <<0, 0>>

----------------------------------------------------------------------------
(* Properties of bind (SpecBind).                                          *)

\* C2: for every IPv6 kind, whenever bind reaches the OS bind call on the
\* socket it created, IPV6_V6ONLY has been set on that socket; no socket of
\* an IPv6 kind is bound or returned without it.
C2_Ipv6OnlyBeforeBind ==
    (socket_domain(b_type) = "v6" /\ b_sock.created) =>
        ((b_pc = "bind" \/ b_sock.bound # "none" \/ b_out.kind = "Ok") =>
            b_sock.only_v6)

\* C3: bind ends by returning a socket or an error; when the address text
\* does not parse it returns an Err (it does not panic) and the socket it
\* created is not left open.
C3_ParseFailureIsErr ==
    b_pc = "done" =>
        /\ b_out.kind \in {"Ok", "Err"}
        /\ ~parse_ok(b_addr, parsed_family(b_type)) =>
               (b_out.kind = "Err" /\ ~b_sock.open)

----------------------------------------------------------------------------
(* Properties of the dialers (SpecDial).                                   *)

Attempted(res) == res.kind # "NotRun"

IsPrefix(s, t) == Len(s) <= Len(t) /\ s = SubSeq(t, 1, Len(s))

\* the events of a Both dial, in order
BothLog ==
    <<<<"begin", "v4">>, <<"end", "v4">>, <<"begin", "v6">>, <<"end", "v6">>,
      <<"return">>>>

\* C1: the result of a dial is a function of the attempts' results: a family
\* is attempted iff the DualAddr names it; if an attempted family succeeded
\* the result is Ok with slot 1 / slot 2 holding exactly the successful
\* IPv4 / IPv6 attempt's socket (never (None, None)); if every attempted
\* family failed the result is Err with, for Both, the IPv4 attempt's error.
C1_DialOutcome ==
    d_pc = "done" =>
        /\ Attempted(d_res1) <=> d_addr \in {"V4", "Both"}
        /\ Attempted(d_res2) <=> d_addr \in {"V6", "Both"}
        /\ (d_res1.kind = "Ok" \/ d_res2.kind = "Ok") =>
              /\ d_out.kind = "Ok"
              /\ d_out.slot1 = (IF d_res1.kind = "Ok" THEN Some(d_res1.sock) ELSE NoneOpt)
              /\ d_out.slot2 = (IF d_res2.kind = "Ok" THEN Some(d_res2.sock) ELSE NoneOpt)
        /\ ~(d_res1.kind = "Ok" \/ d_res2.kind = "Ok") =>
              /\ d_out.kind = "Err"
              /\ d_out.err = (IF d_addr = "V6" THEN d_res2 ELSE d_res1)
              /\ d_addr = "Both" => d_out.err.fam = "v4"
        /\ d_out.kind = "Ok" => (d_out.slot1.some \/ d_out.slot2.some)

\* a Both dial absorbed the IPv4 failure next to an IPv6 success
C1_Witness ==
    /\ d_pc = "done" /\ d_addr = "Both"
    /\ d_res1.kind = "Err" /\ d_res2.kind = "Ok"
    /\ d_out.kind = "Ok" /\ ~d_out.slot1.some /\ d_out.slot2.some

\* C8: a Both dial makes the IPv4 attempt, then the IPv6 attempt, then
\* returns: the IPv6 attempt begins after the IPv4 attempt has ended,
\* whatever its result, and a result is reported only after both have ended.
C8_BothAttemptedInTurn ==
    d_addr = "Both" =>
        /\ IsPrefix(d_log, BothLog)
        /\ d_fam = "v6" => Attempted(d_res1)
        /\ d_pc = "done" <=> d_out.kind # "Pending"
        /\ d_out.kind # "Pending" =>
              (d_log = BothLog /\ Attempted(d_res1) /\ Attempted(d_res2))

\* a Both dial went on to the IPv6 attempt after the IPv4 attempt failed
C8_Witness ==
    /\ d_addr = "Both" /\ d_pc = "done"
    /\ d_res1.kind = "Err" /\ Attempted(d_res2)
    /\ d_log = BothLog

\* C10: whenever dial_udp calls connect, the local socket it bound is of
\* the family of the remote address.
C10_UdpLocalFamilyMatchesRemote ==
    d_pc = "udp_connect" => d_sock.domain = d_fam

=============================================================================
